---- MODULE Spec2Model ----
(***************************************************************************)
(* Model of src/app.py: the GitHub repository analyzer.                    *)
(*                                                                         *)
(* Python values are modelled as follows.                                  *)
(*  - a str whose content the code inspects (complexity, commit_activity,  *)
(*    a textual jd_match_score) is a sequence of one-character strings;    *)
(*  - a JSON value is a tagged record [t, items, chars, n];                *)
(*  - a dict is a function whose DOMAIN is the set of keys present;        *)
(*  - the result of a call that may raise is [ok, val, exc].               *)
(*  - the LLM's response text is a sequence of tokens: prose, whitespace,  *)
(*    '{', '}' and "key": value members; find/rfind/slicing/strip work on  *)
(*    token positions exactly as Python's work on character positions.     *)
(***************************************************************************)
EXTENDS Integers, Sequences, FiniteSets, TLC

VARIABLES
    pc,             \* control position of the run
    llm_out,        \* what llm.invoke does for the current repository
    analysis_data,  \* dict returned by analyze_repo_and_jd_match
    repo_score,     \* outcome of calculate_repo_score(analysis_data)
    repos,          \* list returned by get_github_repos
    idx,            \* number of completed iterations of the loop
    results,        \* analyze_github_repos: results
    total_score,    \* analyze_github_repos: total_score (evaluate_candidate's argument)
    returned,       \* value analyze_github_repos returned to main
    num_repos,      \* main: num_repos (evaluate_candidate's argument)
    suitability,    \* outcome of evaluate_candidate(total_score, num_repos)
    sorted_analysis,\* main: sorted_analysis
    average_score,  \* main: avg_score, exported as average_score
    outcome,        \* how the run ended
    exception       \* the exception that ended it, if any

vars == <<pc, llm_out, analysis_data, repo_score, repos, idx, results,
          total_score, returned, num_repos, suitability, sorted_analysis,
          average_score, outcome, exception>>

-----------------------------------------------------------------------------
(* Bounds of the model *)

MaxItems == 6

MaxRepos == 3

MaxTotalScore == 400

MaxRepoCount == 5

-----------------------------------------------------------------------------
(* Outcomes of calls *)

Ok(v) == [ok |-> TRUE, val |-> v, exc |-> "none"]

Raise(e) == [ok |-> FALSE, val |-> 0, exc |-> e]

NoCall == [ok |-> FALSE, val |-> 0, exc |-> "not called"]

-----------------------------------------------------------------------------
(* JSON values *)

JList(xs) == [t |-> "list", items |-> xs, chars |-> <<>>, n |-> 0]

JStr(cs) == [t |-> "str", items |-> <<>>, chars |-> cs, n |-> 0]

JNum(k) == [t |-> "num", items |-> <<>>, chars |-> <<>>, n |-> k]

JNull == [t |-> "null", items |-> <<>>, chars |-> <<>>, n |-> 0]

Entries(k) == [i \in 1..k |-> "item"]

-----------------------------------------------------------------------------
(* str.lower() *)

UpperCase == <<"A","B","C","D","E","F","G","H","I","J","K","L","M",
               "N","O","P","Q","R","S","T","U","V","W","X","Y","Z">>

LowerCase == <<"a","b","c","d","e","f","g","h","i","j","k","l","m",
               "n","o","p","q","r","s","t","u","v","w","x","y","z">>

LowerChar(c) ==
    IF \E i \in DOMAIN UpperCase : UpperCase[i] = c
    THEN LowerCase[CHOOSE i \in DOMAIN UpperCase : UpperCase[i] = c]
    ELSE c

Lower(s) == [i \in DOMAIN s |-> LowerChar(s[i])]

-----------------------------------------------------------------------------
(* float(x) for the values jd_match_score can take.  Numbers are integers  *)
(* and numeric strings are optionally signed integer literals, possibly    *)
(* surrounded by blanks; every other string raises ValueError.             *)

Digits == <<"0","1","2","3","4","5","6","7","8","9">>

IsDigit(c) == \E i \in DOMAIN Digits : Digits[i] = c

DigitValue(c) == (CHOOSE i \in DOMAIN Digits : Digits[i] = c) - 1

IsBlankChar(c) == c = " "

RECURSIVE StripLeftChars(_)
StripLeftChars(s) ==
    IF s # <<>> /\ IsBlankChar(Head(s)) THEN StripLeftChars(Tail(s)) ELSE s

RECURSIVE StripRightChars(_)
StripRightChars(s) ==
    IF s # <<>> /\ IsBlankChar(s[Len(s)])
    THEN StripRightChars(SubSeq(s, 1, Len(s) - 1))
    ELSE s

\* str.strip() of a character sequence
StripChars(s) == StripRightChars(StripLeftChars(s))

RECURSIVE DigitsValue(_, _)
DigitsValue(s, acc) ==
    IF s = <<>> THEN acc
    ELSE DigitsValue(Tail(s), 10 * acc + DigitValue(Head(s)))

ParseFloat(cs) ==
    LET body == StripChars(cs)
        signed == body # <<>> /\ Head(body) \in {"+", "-"}
        digits == IF signed THEN Tail(body) ELSE body
    IN  IF digits # <<>> /\ \A i \in DOMAIN digits : IsDigit(digits[i])
        THEN Ok(IF signed /\ Head(body) = "-"
                THEN 0 - DigitsValue(digits, 0)
                ELSE DigitsValue(digits, 0))
        ELSE Raise("ValueError")

Float(v) ==
    CASE v.t = "num" -> Ok(v.n)
      [] v.t = "str" -> ParseFloat(v.chars)
      [] OTHER -> Raise("TypeError")

-----------------------------------------------------------------------------
(* dict and len *)

Subscript(d, key) == IF key \in DOMAIN d THEN Ok(d[key]) ELSE Raise("KeyError")

Get(d, key, default) == IF key \in DOMAIN d THEN d[key] ELSE default

PyLen(v) ==
    CASE v.t = "list" -> Ok(Len(v.items))
      [] v.t = "str" -> Ok(Len(v.chars))
      [] OTHER -> Raise("TypeError")

Min(a, b) == IF a <= b THEN a ELSE b

\* table.get(key, default) for a dict literal written as key/value pairs
TableGet(table, key, default) ==
    IF \E i \in DOMAIN table : table[i][1] = key
    THEN table[CHOOSE i \in DOMAIN table : table[i][1] = key][2]
    ELSE default

\* round(num / den) for den > 0: the nearest integer, ties to even
Round(num, den) ==
    LET q == num \div den
        r == num % den
    IN  IF 2 * r < den THEN q
        ELSE IF 2 * r > den THEN q + 1
        ELSE IF q % 2 = 0 THEN q ELSE q + 1

-----------------------------------------------------------------------------
(* calculate_repo_score *)

Str_low == <<"l","o","w">>
Str_medium == <<"m","e","d","i","u","m">>
Str_high == <<"h","i","g","h">>
Str_unknown == <<"u","n","k","n","o","w","n">>
Str_inactive == <<"i","n","a","c","t","i","v","e">>
Str_moderate == <<"m","o","d","e","r","a","t","e">>
Str_active == <<"a","c","t","i","v","e">>

complexity_scores ==
    << <<Str_low, 10>>, <<Str_medium, 20>>, <<Str_high, 30>>, <<Str_unknown, 0>> >>

activity_scores ==
    << <<Str_inactive, 10>>, <<Str_moderate, 20>>, <<Str_active, 30>>, <<Str_unknown, 0>> >>

\* min(len(analysis_data[key]) * per, cap)
CountPoints(analysis, key, per, cap) ==
    LET v == Subscript(analysis, key)
        n == PyLen(v.val)
    IN  IF ~v.ok THEN v
        ELSE IF ~n.ok THEN n
        ELSE Ok(Min(n.val * per, cap))

LanguagePoints(analysis) == CountPoints(analysis, "languages", 2, 10)

TechStackPointsNegated(analysis) ==
    LET p == CountPoints(analysis, "tech_stack", 3, 15)
    IN  IF p.ok THEN Ok(15 - p.val) ELSE p

TechStackPointsUncapped(analysis) ==
    LET v == Subscript(analysis, "tech_stack")
        n == PyLen(v.val)
    IN  IF ~v.ok THEN v
        ELSE IF ~n.ok THEN n
        ELSE Ok(n.val * 3)

TechStackPoints(analysis) == CountPoints(analysis, "tech_stack", 3, 15)

AlgorithmPoints(analysis) == CountPoints(analysis, "algorithms", 3, 15)

\* table.get(analysis_data[key].lower(), 0)
TierPoints(analysis, key, table) ==
    LET v == Subscript(analysis, key)
    IN  IF ~v.ok THEN v
        ELSE IF v.val.t # "str" THEN Raise("AttributeError")
        ELSE Ok(TableGet(table, Lower(v.val.chars), 0))

ComplexityPoints(analysis) == TierPoints(analysis, "complexity", complexity_scores)

ActivityPoints(analysis) == TierPoints(analysis, "commit_activity", activity_scores)

\* float(analysis_data.get('jd_match_score', 0))
JdMatchScore(analysis) == Float(Get(analysis, "jd_match_score", JNum(0)))

FinalScoreSwappedWeights(base_score, jd_match_score) ==
    Round(base_score * 4 + jd_match_score * 6, 10)

\* round((base_score * 0.6) + (jd_match_score * 0.4))
FinalScore(base_score, jd_match_score) ==
    Round(base_score * 6 + jd_match_score * 4, 10)

\* base_score once the five += statements have run
BaseScore(analysis) ==
    LET a == LanguagePoints(analysis)
        b == TechStackPoints(analysis)
        c == AlgorithmPoints(analysis)
        d == ComplexityPoints(analysis)
        e == ActivityPoints(analysis)
    IN  IF ~a.ok THEN a
        ELSE IF ~b.ok THEN b
        ELSE IF ~c.ok THEN c
        ELSE IF ~d.ok THEN d
        ELSE IF ~e.ok THEN e
        ELSE Ok(a.val + b.val + c.val + d.val + e.val)

calculate_repo_score(analysis) ==
    LET base_score == BaseScore(analysis)
        jd_match_score == JdMatchScore(analysis)
    IN  IF ~base_score.ok THEN base_score
        ELSE IF ~jd_match_score.ok THEN jd_match_score
        ELSE Ok(FinalScore(base_score.val, jd_match_score.val))

-----------------------------------------------------------------------------
(* evaluate_candidate *)

\* a / b as an exact quotient
Divide(a, b) ==
    IF b = 0 THEN Raise("ZeroDivisionError") ELSE Ok([num |-> a, den |-> b])

\* q >= k, for a quotient with a positive denominator
AtLeast(q, k) == q.num >= k * q.den

Unable == "Unable to evaluate - no repositories found"

Tier(avg_score) ==
    IF AtLeast(avg_score, 75) THEN "Highly Suitable"
    ELSE IF AtLeast(avg_score, 50) THEN "Moderately Suitable"
    ELSE IF AtLeast(avg_score, 25) THEN "Potentially Suitable"
    ELSE "Not Suitable"

evaluate_candidate_strict(total, n) ==
    IF n = 0 THEN Ok(Unable)
    ELSE LET avg_score == [num |-> total, den |-> n]
         IN  Ok(IF avg_score.num > 75 * avg_score.den THEN "Highly Suitable"
                ELSE IF avg_score.num > 50 * avg_score.den THEN "Moderately Suitable"
                ELSE IF avg_score.num > 25 * avg_score.den THEN "Potentially Suitable"
                ELSE "Not Suitable")

evaluate_candidate_unguarded(total, n) ==
    LET avg_score == Divide(total, n)
    IN  IF ~avg_score.ok THEN avg_score ELSE Ok(Tier(avg_score.val))

evaluate_candidate(total, n) ==
    IF n = 0 THEN Ok(Unable)
    ELSE LET avg_score == Divide(total, n)
         IN  IF ~avg_score.ok THEN avg_score ELSE Ok(Tier(avg_score.val))

-----------------------------------------------------------------------------
(* The LLM's response text and analyze_repo_and_jd_match *)

Tok(kind) == [k |-> kind, key |-> "", val |-> JNull]

Member(key, val) == [k |-> "member", key |-> key, val |-> val]

\* str.find / str.rfind for a token kind: 0-based position, -1 when absent
Find(text, kind) ==
    IF \E i \in DOMAIN text : text[i].k = kind
    THEN (CHOOSE i \in DOMAIN text :
             /\ text[i].k = kind
             /\ \A j \in 1..(i - 1) : text[j].k # kind) - 1
    ELSE -1

RFind(text, kind) ==
    IF \E i \in DOMAIN text : text[i].k = kind
    THEN (CHOOSE i \in DOMAIN text :
             /\ text[i].k = kind
             /\ \A j \in (i + 1)..Len(text) : text[j].k # kind) - 1
    ELSE -1

\* a slice bound as Python normalises it
SliceIndex(i, len) ==
    IF i < 0 THEN (IF len + i < 0 THEN 0 ELSE len + i)
    ELSE IF i > len THEN len ELSE i

\* text[start:stop]
PySlice(text, start, stop) ==
    SubSeq(text, SliceIndex(start, Len(text)) + 1, SliceIndex(stop, Len(text)))

RECURSIVE StripLeftTokens(_)
StripLeftTokens(s) ==
    IF s # <<>> /\ Head(s).k = "ws" THEN StripLeftTokens(Tail(s)) ELSE s

RECURSIVE StripRightTokens(_)
StripRightTokens(s) ==
    IF s # <<>> /\ s[Len(s)].k = "ws"
    THEN StripRightTokens(SubSeq(s, 1, Len(s) - 1))
    ELSE s

\* str.strip() of a token sequence
StripTokens(s) == StripRightTokens(StripLeftTokens(s))

RECURSIVE DictOf(_, _)
DictOf(members, d) ==
    IF members = <<>> THEN d
    ELSE LET m == Head(members)
         IN  DictOf(Tail(members),
                    [key \in DOMAIN d \cup {m.key} |->
                        IF key = m.key THEN m.val ELSE d[key]])

EmptyDict == [key \in {} |-> JNull]

\* json.loads: an object is '{', members, '}'; anything else is an error
JsonLoads(text) ==
    LET core == SelectSeq(text, LAMBDA tk : tk.k # "ws")
    IN  IF /\ Len(core) >= 2
           /\ core[1].k = "lb"
           /\ core[Len(core)].k = "rb"
           /\ \A i \in 2..(Len(core) - 1) : core[i].k = "member"
        THEN Ok(DictOf(SubSeq(core, 2, Len(core) - 1), EmptyDict))
        ELSE Raise("JSONDecodeError")

DefaultAnalysis ==
    [languages |-> JList(<<>>), tech_stack |-> JList(<<>>),
     algorithms |-> JList(<<>>), complexity |-> JStr(Str_unknown),
     commit_activity |-> JStr(Str_unknown), jd_match_score |-> JNum(0),
     jd_match_reasons |-> JList(<<>>)]

\* the body of the try block: json.loads(response[json_start:json_end].strip())
ParseResponse(response) ==
    LET json_start == Find(response, "lb")
        json_end == RFind(response, "rb") + 1
    IN  JsonLoads(StripTokens(PySlice(response, json_start, json_end)))

analyze_repo_and_jd_match_empty_default(llm) ==
    IF llm.raises THEN EmptyDict
    ELSE LET json_data == ParseResponse(llm.response)
         IN  IF json_data.ok THEN json_data.val ELSE EmptyDict

analyze_repo_and_jd_match(llm) ==
    IF llm.raises THEN DefaultAnalysis
    ELSE LET json_data == ParseResponse(llm.response)
         IN  IF json_data.ok THEN json_data.val ELSE DefaultAnalysis

-----------------------------------------------------------------------------
(* analyze_github_repos and main *)

AccumulateOverwrite(total, score) == score

\* total_score += repo_score
Accumulate(total, score) == total + score

\* results.append((repo_name, analysis_data, repo_score))
ResultEntry(repo_name, analysis, score) ==
    [repo_name |-> repo_name, analysis_data |-> analysis, repo_score |-> score]

\* repo_analysis, total_score = <value>
Unpack2(value) == IF Len(value) = 2 THEN Ok(value) ELSE Raise("ValueError")

\* sorted(repo_analysis, key=lambda x: x[2], reverse=True): stable
RECURSIVE InsertByScore(_, _)
InsertByScore(sorted, entry) ==
    IF sorted = <<>> THEN <<entry>>
    ELSE IF Head(sorted).repo_score >= entry.repo_score
         THEN <<Head(sorted)>> \o InsertByScore(Tail(sorted), entry)
         ELSE <<entry>> \o sorted

RECURSIVE SortedByScore(_)
SortedByScore(entries) ==
    IF entries = <<>> THEN <<>>
    ELSE InsertByScore(SortedByScore(SubSeq(entries, 1, Len(entries) - 1)),
                       entries[Len(entries)])

-----------------------------------------------------------------------------
(* Inputs *)

KeyOrder == <<"languages", "tech_stack", "algorithms", "complexity",
              "commit_activity", "jd_match_score", "jd_match_reasons">>

Keys == {KeyOrder[i] : i \in DOMAIN KeyOrder}

ScoredKeys == {"languages", "tech_stack", "algorithms", "complexity",
               "commit_activity", "jd_match_score"}

ComplexityStrings ==
    {Str_low, Str_medium, Str_high, Str_unknown, <<"H","I","G","H">>}

ActivityStrings ==
    {Str_inactive, Str_moderate, Str_active, <<"A","c","t","i","v","e">>, <<"l","o","w">>}

JdNumbers == {-7, 0, 1, 37, 80, 100, 137}

JdStrings == {<<"8","5">>, <<" ","-","5"," ">>, <<"1","-","1","0","0">>}

JAbsent == [t |-> "absent", items |-> <<>>, chars |-> <<>>, n |-> 0]

JdCases ==
    {JNum(k) : k \in JdNumbers} \cup {JStr(s) : s \in JdStrings} \cup {JNull, JAbsent}

Without(d, keys) == [k \in DOMAIN d \ keys |-> d[k]]

FullAnalysis(nl, nt, na, cx, act, jd) ==
    [languages |-> JList(Entries(nl)), tech_stack |-> JList(Entries(nt)),
     algorithms |-> JList(Entries(na)), complexity |-> JStr(cx),
     commit_activity |-> JStr(act), jd_match_score |-> jd,
     jd_match_reasons |-> JList(<<>>)]

\* jd = JAbsent stands for a dict without the key
Analysis(nl, nt, na, cx, act, jd) ==
    IF jd = JAbsent
    THEN Without(FullAnalysis(nl, nt, na, cx, act, jd), {"jd_match_score"})
    ELSE FullAnalysis(nl, nt, na, cx, act, jd)

\* the spec's concrete scenario, and a second record with a textual score
ScenarioAnalysis == FullAnalysis(2, 1, 0, Str_medium, Str_active, JNum(80))

TextualAnalysis ==
    FullAnalysis(5, 3, 1, <<"H","I","G","H">>, Str_moderate, JStr(<<"1","-","1","0","0">>))

StrongAnalysis == FullAnalysis(6, 5, 4, Str_high, Str_active, JStr(<<"8","5">>))

MembersOf(d, present) ==
    LET keys == SelectSeq(KeyOrder, LAMBDA key : key \in present)
    IN  [i \in DOMAIN keys |-> Member(keys[i], d[keys[i]])]

\* the shapes a response's JSON part takes
Shape(s, members) ==
    CASE s = 1 -> <<Tok("lb")>> \o members \o <<Tok("rb")>>
      [] s = 2 -> <<Tok("lb")>> \o members
      [] s = 3 -> members \o <<Tok("rb")>>
      [] s = 4 -> <<Tok("lb")>> \o members \o <<Tok("txt"), Tok("rb")>>
      [] s = 5 -> <<Tok("lb")>> \o members \o <<Tok("rb"), Tok("txt"), Tok("lb"), Tok("rb")>>
      [] s = 6 -> <<Tok("rb")>> \o members \o <<Tok("lb")>>
      [] OTHER -> <<>>

Shapes == 0..6

Padding == {<<>>, <<Tok("txt")>>, <<Tok("ws")>>}

Responds(text) == [raises |-> FALSE, response |-> text]

LlmRaises == [raises |-> TRUE, response |-> <<>>]

LlmOutcomes ==
    {LlmRaises} \cup
    {Responds(pre \o Shape(s, MembersOf(d, present)) \o post) :
        pre \in Padding, post \in Padding, s \in Shapes,
        d \in {ScenarioAnalysis, TextualAnalysis}, present \in SUBSET Keys}

\* what the LLM does for the repositories of a run
RunLlmOutcomes ==
    {LlmRaises,
     Responds(<<Tok("txt"), Tok("lb")>> \o MembersOf(ScenarioAnalysis, Keys)
              \o <<Tok("rb"), Tok("ws")>>),
     Responds(<<Tok("lb")>> \o MembersOf(StrongAnalysis, Keys) \o <<Tok("rb")>>),
     Responds(<<Tok("lb")>> \o MembersOf(ScenarioAnalysis, Keys \ {"algorithms"})
              \o <<Tok("rb")>>)}

RepoNames == 1..MaxRepos

Repo(name, llm) == [name |-> name, llm |-> llm]

RECURSIVE Listings(_)
Listings(n) ==
    IF n = 0 THEN {<<>>}
    ELSE LET shorter == Listings(n - 1)
         IN  shorter \cup
             {Append(l, Repo(name, llm)) :
                 l \in {x \in shorter : Len(x) = n - 1},
                 name \in RepoNames, llm \in RunLlmOutcomes}

DistinctNames(l) == \A i, j \in DOMAIN l : i # j => l[i].name # l[j].name

\* the listings GitHub can return: repository names of one user are distinct
RepoListings == {l \in Listings(MaxRepos) : DistinctNames(l)}

NoLlm == Responds(<<>>)

-----------------------------------------------------------------------------
(* Specification of calculate_repo_score alone *)

Idle ==
    /\ repos = <<>>
    /\ idx = 0
    /\ results = <<>>
    /\ returned = <<>>
    /\ sorted_analysis = <<>>
    /\ average_score = 0
    /\ outcome = "running"
    /\ exception = "none"

InitScore ==
    /\ pc = "score"
    /\ \E nl \in 0..MaxItems, nt \in 0..MaxItems, na \in 0..MaxItems,
          cx \in ComplexityStrings, act \in ActivityStrings, jd \in JdCases :
          analysis_data = Analysis(nl, nt, na, cx, act, jd)
    /\ llm_out = NoLlm
    /\ repo_score = NoCall
    /\ total_score = 0
    /\ num_repos = 0
    /\ suitability = NoCall
    /\ Idle

ScoreCall ==
    /\ pc = "score"
    /\ repo_score' = calculate_repo_score(analysis_data)
    /\ pc' = "scored"
    /\ UNCHANGED <<llm_out, analysis_data, repos, idx, results, total_score,
                   returned, num_repos, suitability, sorted_analysis, average_score, outcome,
                   exception>>

SpecScore == InitScore /\ [][ScoreCall]_vars

-----------------------------------------------------------------------------
(* Specification of analyze_repo_and_jd_match followed by calculate_repo_score *)

InitAnalyze ==
    /\ pc = "analyze"
    /\ llm_out \in LlmOutcomes
    /\ analysis_data = EmptyDict
    /\ repo_score = NoCall
    /\ total_score = 0
    /\ num_repos = 0
    /\ suitability = NoCall
    /\ Idle

AnalyzeCall ==
    /\ pc = "analyze"
    /\ analysis_data' = analyze_repo_and_jd_match(llm_out)
    /\ pc' = "score"
    /\ UNCHANGED <<llm_out, repo_score, repos, idx, results, total_score,
                   returned, num_repos, suitability, sorted_analysis, average_score, outcome,
                   exception>>

NextAnalyze == AnalyzeCall \/ ScoreCall

SpecAnalyze == InitAnalyze /\ [][NextAnalyze]_vars

-----------------------------------------------------------------------------
(* Specification of evaluate_candidate alone *)

InitEval ==
    /\ pc = "evaluate"
    /\ total_score \in (0 - 20)..MaxTotalScore
    /\ num_repos \in 0..MaxRepoCount
    /\ suitability = NoCall
    /\ llm_out = NoLlm
    /\ analysis_data = EmptyDict
    /\ repo_score = NoCall
    /\ Idle

EvaluateCall ==
    /\ pc = "evaluate"
    /\ suitability' = evaluate_candidate(total_score, num_repos)
    /\ pc' = "evaluated"
    /\ UNCHANGED <<llm_out, analysis_data, repo_score, repos, idx, results,
                   total_score, returned, num_repos, sorted_analysis, average_score, outcome,
                   exception>>

SpecEval == InitEval /\ [][EvaluateCall]_vars

-----------------------------------------------------------------------------
(* Specification of a run of main *)

Init ==
    /\ pc = "main"
    /\ llm_out = NoLlm
    /\ analysis_data = EmptyDict
    /\ repo_score = NoCall
    /\ total_score = 0
    /\ num_repos = 0
    /\ suitability = NoCall
    /\ Idle

\* the button and the four inputs: the analysis starts only when all are given
MainClick ==
    /\ pc = "main"
    /\ \E ready \in BOOLEAN :
          IF ready
          THEN pc' = "initialize_api" /\ outcome' = outcome
          ELSE pc' = "done" /\ outcome' = "no analysis requested"
    /\ UNCHANGED <<llm_out, analysis_data, repo_score, repos, idx, results,
                   total_score, returned, num_repos, suitability,
                   sorted_analysis, average_score, exception>>

\* initialize_api returns (headers, llm), or (None, None) when the test call raises
InitializeApi ==
    /\ pc = "initialize_api"
    /\ \E initialized \in BOOLEAN :
          IF initialized
          THEN pc' = "get_github_repos" /\ outcome' = outcome
          ELSE pc' = "done" /\ outcome' = "failed to initialize APIs"
    /\ UNCHANGED <<llm_out, analysis_data, repo_score, repos, idx, results,
                   total_score, returned, num_repos, suitability,
                   sorted_analysis, average_score, exception>>

\* get_github_repos, `if not repos: return []`, and the loop's initialisation
GetGithubRepos ==
    /\ pc = "get_github_repos"
    /\ \E status_code \in {200, 404}, listing \in RepoListings :
          /\ repos' = IF status_code = 200 THEN listing ELSE <<>>
          /\ IF repos' = <<>>
             THEN /\ pc' = "unpack"
                  /\ returned' = <<>>
                  /\ UNCHANGED <<results, total_score, idx>>
             ELSE /\ pc' = "loop"
                  /\ results' = <<>>
                  /\ total_score' = 0
                  /\ idx' = 0
                  /\ UNCHANGED returned
    /\ UNCHANGED <<llm_out, analysis_data, repo_score, num_repos, suitability,
                   sorted_analysis, average_score, outcome, exception>>

\* one iteration of `for idx, repo in enumerate(repos)`
LoopIteration ==
    /\ pc = "loop"
    /\ idx < Len(repos)
    /\ LET repo == repos[idx + 1]
           analysis == analyze_repo_and_jd_match(repo.llm)
           score == calculate_repo_score(analysis)
       IN  /\ llm_out' = repo.llm
           /\ analysis_data' = analysis
           /\ repo_score' = score
           /\ IF score.ok
              THEN /\ total_score' = Accumulate(total_score, score.val)
                   /\ results' = Append(results, ResultEntry(repo.name, analysis, score.val))
                   /\ idx' = idx + 1
                   /\ UNCHANGED <<pc, outcome, exception>>
              ELSE /\ pc' = "done"
                   /\ outcome' = "unhandled exception"
                   /\ exception' = score.exc
                   /\ UNCHANGED <<total_score, results, idx>>
    /\ UNCHANGED <<repos, returned, num_repos, suitability, sorted_analysis, average_score>>

\* `return results, total_score`
LoopReturn ==
    /\ pc = "loop"
    /\ idx = Len(repos)
    /\ returned' = <<results, total_score>>
    /\ pc' = "unpack"
    /\ UNCHANGED <<llm_out, analysis_data, repo_score, repos, idx, results,
                   total_score, num_repos, suitability, sorted_analysis, average_score,
                   outcome, exception>>

\* main, from the unpacking of analyze_github_repos' value to the end of the run
MainUnpack ==
    /\ pc = "unpack"
    /\ pc' = "done"
    /\ LET unpacked == Unpack2(returned)
       IN  IF ~unpacked.ok
           THEN /\ outcome' = "unhandled exception"
                /\ exception' = unpacked.exc
                /\ UNCHANGED <<num_repos, suitability, sorted_analysis, average_score>>
           ELSE LET repo_analysis == unpacked.val[1]
                IN  IF repo_analysis # <<>>
                    THEN /\ num_repos' = Len(repo_analysis)
                         /\ suitability' = evaluate_candidate(unpacked.val[2], num_repos')
                         /\ average_score' = IF num_repos' > 0
                                         THEN Round(unpacked.val[2], num_repos')
                                         ELSE 0
                         /\ sorted_analysis' = SortedByScore(repo_analysis)
                         /\ outcome' = "summary"
                         /\ exception' = exception
                    ELSE /\ outcome' = "no repositories found or analysis failed"
                         /\ UNCHANGED <<num_repos, suitability, sorted_analysis,
                                        average_score, exception>>
    /\ UNCHANGED <<llm_out, analysis_data, repo_score, repos, idx, results,
                   total_score, returned>>

Next ==
    \/ MainClick
    \/ InitializeApi
    \/ GetGithubRepos
    \/ LoopIteration
    \/ LoopReturn
    \/ MainUnpack

Spec == Init /\ [][Next]_vars

-----------------------------------------------------------------------------
(* Properties *)

TechStack(analysis) == analysis["tech_stack"].items

HasKind(text, kind) == \E i \in DOMAIN text : text[i].k = kind

RECURSIVE SumScores(_)
SumScores(entries) ==
    IF entries = <<>> THEN 0
    ELSE Head(entries).repo_score + SumScores(Tail(entries))

\* C1: every analysis that analyze_repo_and_jd_match hands to
\* calculate_repo_score after a successful parse holds all six scored fields
\* (a field the response omits is present with its default value), and
\* calculate_repo_score returns a score for it.  Records whose jd_match_score
\* is present but not a number are left to C2.
C1_ParsedRecordsAreComplete ==
    (/\ pc = "scored"
     /\ ~llm_out.raises
     /\ ParseResponse(llm_out.response).ok
     /\ JdMatchScore(ParseResponse(llm_out.response).val).ok)
    => /\ \A key \in ScoredKeys :
            /\ key \in DOMAIN analysis_data
            /\ key \notin DOMAIN ParseResponse(llm_out.response).val
                  => analysis_data[key] = DefaultAnalysis[key]
       /\ repo_score.ok

\* C2: a jd_match_score that is absent or that float() cannot convert counts
\* as 0: calculate_repo_score returns round(base_score * 0.6) and does not raise.
C2_UnparsableJdCountsAsZero ==
    (/\ pc = "scored"
     /\ BaseScore(analysis_data).ok
     /\ \/ "jd_match_score" \notin DOMAIN analysis_data
        \/ ~JdMatchScore(analysis_data).ok)
    => repo_score = Ok(Round(6 * BaseScore(analysis_data).val, 10))

\* C3: the base score lies in 0..100 whatever the lengths of the lists and the
\* tier strings, and the final score lies in 0..100 whenever jd_match_score
\* does.
C3_ScoresAreBounded ==
    pc = "scored" =>
        /\ BaseScore(analysis_data).ok
        /\ BaseScore(analysis_data).val \in 0..100
        /\ (/\ JdMatchScore(analysis_data).ok
            /\ JdMatchScore(analysis_data).val \in 0..100)
           => (repo_score.ok /\ repo_score.val \in 0..100)

C3_Witness ==
    /\ pc = "scored"
    /\ Len(analysis_data["languages"].items) = MaxItems
    /\ Len(TechStack(analysis_data)) = MaxItems
    /\ Len(analysis_data["algorithms"].items) = MaxItems
    /\ BaseScore(analysis_data) = Ok(100)
    /\ repo_score = Ok(100)

\* the claimed tier value: 10/20/30 for the three known words in any letter
\* case, 0 for every other string
ClaimedTier(s, ten, twenty, thirty) ==
    IF Lower(s) = ten THEN 10
    ELSE IF Lower(s) = twenty THEN 20
    ELSE IF Lower(s) = thirty THEN 30
    ELSE 0

ClaimedBase(analysis) ==
    Min(2 * Len(analysis["languages"].items), 10)
    + Min(3 * Len(analysis["tech_stack"].items), 15)
    + Min(3 * Len(analysis["algorithms"].items), 15)
    + ClaimedTier(analysis["complexity"].chars, Str_low, Str_medium, Str_high)
    + ClaimedTier(analysis["commit_activity"].chars,
                  Str_inactive, Str_moderate, Str_active)

\* C4: with an integer jd_match_score (any value, unclamped) the result is
\* round(base * 0.6 + jd_match_score * 0.4), base being the capped sum of the
\* five factors with case-insensitive tiers and 0 for unknown words; 3*base +
\* 2*jd fifths never fall on a half, so the nearest integer is
\* floor((2*(3*base + 2*jd) + 5) / 10).  "HIGH" scores 30, "unknown" scores
\* 0, and the concrete scenario has base 57 and score 66.
C4_ScoreFormula ==
    (/\ pc = "scored"
     /\ "jd_match_score" \in DOMAIN analysis_data
     /\ analysis_data["jd_match_score"].t = "num")
    => LET base == ClaimedBase(analysis_data)
           jd == analysis_data["jd_match_score"].n
       IN  /\ BaseScore(analysis_data) = Ok(base)
           /\ repo_score = Ok((2 * (3 * base + 2 * jd) + 5) \div 10)
           /\ analysis_data["complexity"].chars = <<"H","I","G","H">>
                 => ComplexityPoints(analysis_data) = Ok(30)
           /\ analysis_data["complexity"].chars = Str_unknown
                 => ComplexityPoints(analysis_data) = Ok(0)
           /\ analysis_data["commit_activity"].chars = <<"l","o","w">>
                 => ActivityPoints(analysis_data) = Ok(0)
           /\ analysis_data = ScenarioAnalysis
                 => (base = 57 /\ repo_score = Ok(66))

C4_Witness ==
    /\ pc = "scored"
    /\ analysis_data = ScenarioAnalysis
    /\ BaseScore(analysis_data) = Ok(57)
    /\ repo_score = Ok(66)

\* C8: one more tech_stack entry, while there are fewer than 5, never lowers
\* the score.
C8_TechStackMonotone ==
    (/\ pc = "scored"
     /\ repo_score.ok
     /\ Len(TechStack(analysis_data)) < 5)
    => LET more == [analysis_data EXCEPT
                       !["tech_stack"] = JList(Append(TechStack(analysis_data), "item"))]
       IN  /\ calculate_repo_score(more).ok
           /\ calculate_repo_score(more).val >= repo_score.val

C8_Witness ==
    /\ pc = "scored"
    /\ repo_score.ok
    /\ Len(TechStack(analysis_data)) = 4
    /\ calculate_repo_score(
           [analysis_data EXCEPT
               !["tech_stack"] = JList(Append(TechStack(analysis_data), "item"))]).val
       > repo_score.val

Tiers == {"Highly Suitable", "Moderately Suitable", "Potentially Suitable",
          "Not Suitable"}

\* C5: for num_repos >= 1 the label is the first tier whose inclusive lower
\* bound the average reaches: 75, 50, 25, else "Not Suitable"; (375,5),
\* (250,5), (125,5) and (124,5) give the four tiers in turn.
C5_TierThresholds ==
    (pc = "evaluated" /\ num_repos >= 1) =>
        /\ suitability.ok
        /\ suitability.val \in Tiers
        /\ suitability.val = "Highly Suitable" <=> total_score >= 75 * num_repos
        /\ suitability.val = "Moderately Suitable"
              <=> (50 * num_repos <= total_score /\ total_score < 75 * num_repos)
        /\ suitability.val = "Potentially Suitable"
              <=> (25 * num_repos <= total_score /\ total_score < 50 * num_repos)
        /\ suitability.val = "Not Suitable" <=> total_score < 25 * num_repos
        /\ (total_score = 375 /\ num_repos = 5) => suitability.val = "Highly Suitable"
        /\ (total_score = 250 /\ num_repos = 5) => suitability.val = "Moderately Suitable"
        /\ (total_score = 125 /\ num_repos = 5) => suitability.val = "Potentially Suitable"
        /\ (total_score = 124 /\ num_repos = 5) => suitability.val = "Not Suitable"

C5_Witness ==
    /\ pc = "evaluated"
    /\ total_score = 375
    /\ num_repos = 5
    /\ suitability = Ok("Highly Suitable")

\* C6: with num_repos = 0 the result is the 'unable to evaluate' sentinel for
\* every total_score, no division is attempted, and the sentinel is none of
\* the four tier labels; with num_repos >= 1 the sentinel is never returned.
C6_ZeroReposSentinel ==
    pc = "evaluated" =>
        /\ suitability.ok
        /\ num_repos = 0 => (suitability.val = Unable /\ suitability.val \notin Tiers)
        /\ num_repos >= 1 => suitability.val # Unable

C6_Witness ==
    /\ pc = "evaluated"
    /\ num_repos = 0
    /\ total_score # 0
    /\ suitability = Ok(Unable)

\* C7: when the LLM call raises, or the response has no '{' or no '}', or the
\* text from the first '{' to the last '}' is not a JSON object, the analysis
\* is the default one, and its score is 0.
C7_FailuresGiveDefault ==
    (/\ pc \in {"score", "scored"}
     /\ \/ llm_out.raises
        \/ ~HasKind(llm_out.response, "lb")
        \/ ~HasKind(llm_out.response, "rb")
        \/ ~ParseResponse(llm_out.response).ok)
    => /\ analysis_data = DefaultAnalysis
       /\ pc = "scored" => repo_score = Ok(0)

C7_Witness ==
    /\ pc = "scored"
    /\ ~llm_out.raises
    /\ HasKind(llm_out.response, "lb")
    /\ HasKind(llm_out.response, "rb")
    /\ HasKind(llm_out.response, "member")
    /\ ~ParseResponse(llm_out.response).ok
    /\ analysis_data = DefaultAnalysis
    /\ repo_score = Ok(0)

\* C9: while analyze_github_repos loops over a non-empty listing, after idx
\* iterations results holds idx entries, the i-th naming the i-th listed
\* repository with the score of that repository's own analysis, and
\* total_score is the sum of the scores in results; the pair returned is
\* (results, total_score) with one entry per listed repository.
C9_LoopInvariant ==
    (pc \in {"loop", "unpack", "done"} /\ repos # <<>>) =>
        /\ Len(results) = idx
        /\ idx <= Len(repos)
        /\ \A i \in 1..idx :
              /\ results[i].repo_name = repos[i].name
              /\ results[i].analysis_data = analyze_repo_and_jd_match(repos[i].llm)
              /\ Ok(results[i].repo_score) = calculate_repo_score(results[i].analysis_data)
        /\ total_score = SumScores(results)
        /\ Len(returned) # 0 =>
              /\ Len(returned) = 2
              /\ returned[1] = results
              /\ returned[2] = total_score
              /\ idx = Len(repos)

C9_Witness ==
    /\ pc = "unpack"
    /\ Len(repos) = 3
    /\ Len(returned) = 2
    /\ Len(results) = 3
    /\ results[1].repo_score # results[2].repo_score
    /\ results[3].repo_score > 0
    /\ total_score = results[1].repo_score + results[2].repo_score + results[3].repo_score

\* C10: once the APIs are initialized, whatever get_github_repos returns,
\* analyze_github_repos hands main a pair, the run ends in the summary or in
\* the 'no repositories found or analysis failed' error and never in an
\* unhandled exception, and evaluate_candidate is only called with
\* num_repos >= 1.
C10_RunEndsWithoutException ==
    /\ pc = "unpack" => Len(returned) = 2
    /\ outcome # "unhandled exception"
    /\ (pc = "done" /\ outcome \notin {"no analysis requested", "failed to initialize APIs"})
          => outcome \in {"summary", "no repositories found or analysis failed"}
    /\ suitability # NoCall => num_repos >= 1

====
